---- MODULE Spec2Model ----
(***************************************************************************)
(* Model of cogs/CogPlayerStats.py (backstab-discord-bot): the StatsLoop   *)
(* poll loop, its post-game tracker game_over_ids, and the match           *)
(* aggregation record_player_stats / record_map_stats over the two tables  *)
(* player_stats and map_stats.                                             *)
(***************************************************************************)
EXTENDS Integers, Sequences, FiniteSets, TLC

VARIABLES
    old_query_data,   \* bot.old_query_data: previous poll result (or None)
    cur_query_data,   \* bot.cur_query_data: current poll result (or None)
    game_over_ids,    \* self.game_over_ids: list of server ids in post-game state
    player_stats,     \* table player_stats: sequence of rows, id = AUTO_INCREMENT
    map_stats,        \* table map_stats: rows keyed by map_id
    pc,               \* position of StatsLoop: "stopped", "idle", "fetched"
    today,            \* datetime.now().date(), as a day number
    world,            \* history: per server, the match being played and its timer
    calls,            \* history: what the last StatsLoop body did, in order
    ticks,            \* history: number of StatsLoop iterations started
    detected,         \* history: per server, a finished game was detected and the
                      \* server has since stayed in the results with an equal timer
    recorded,         \* history: per <<id, match>>, record_player_stats invocations
    pending,          \* history: <<id, match>> seen finished and not recorded
    arg_server_data,  \* argument of a direct record_player_stats call
    ret_top_player,   \* value returned by that call
    ncalls,           \* number of direct record_player_stats calls made
    board,            \* the last leaderboard built by get_paginator_for_stat
    views,            \* the ClaimNickname views on display
    now,              \* the clock, in seconds
    cooldowns,        \* per command and member, when the command is usable again
    last_cmd,         \* history: the last command or button handled, its answer
    StatsLoop_seconds, \* StatsLoop.seconds: the interval of the task loop
    config_interval   \* bot.config['PlayerStats']['QueryIntervalSeconds']

vars == <<old_query_data, cur_query_data, game_over_ids, player_stats, map_stats,
          pc, today, world, calls, ticks, detected, recorded, pending,
          arg_server_data, ret_top_player, ncalls, board, views, now, cooldowns,
          last_cmd, StatsLoop_seconds, config_interval>>

\* the state of the poll loop and of the direct aggregation calls, the table
\* player_stats apart
pollvars == <<old_query_data, cur_query_data, game_over_ids, map_stats, pc, today,
              world, calls, ticks, detected, recorded, pending, arg_server_data,
              ret_top_player, ncalls, StatsLoop_seconds,
              config_interval>>

\* the state of the slash commands
cmdvars == <<board, views, now, cooldowns, last_cmd>>

\* the interval of the task loop and its configured value
loopvars == <<StatsLoop_seconds, config_interval>>

-----------------------------------------------------------------------------
(* Bounds of the model *)

MaxTicks == 3
MaxTicksCalm == 5
MaxMatchCalm == 3
MaxPlayers == 3
MaxCalls == 2
MaxDays == 1
MaxRounds == 2
MaxRows == 52
MaxClock == 240

ServerIds == {1, 2}

(* bot.config['PlayerStats'] values read by StatsLoop *)
MatchMinPlayers == 2
MatchMinTimeSec == 30

None == "None"
Null == -1
NoneData == [present |-> FALSE, results |-> <<>>]

-----------------------------------------------------------------------------
(* time_to_sec: "HH:MM:SS" -> seconds.  A string is a sequence of characters. *)

ValueError == -1

Digits == <<"0", "1", "2", "3", "4", "5", "6", "7", "8", "9">>

IsDigit(c) == \E i \in 1..10 : Digits[i] = c

DigitVal(c) == (CHOOSE i \in 1..10 : Digits[i] = c) - 1

\* str.split(':'): the pieces between the separators, empty pieces included
RECURSIVE SplitFrom(_, _, _, _)
SplitFrom(str, i, piece, done) ==
    IF i > Len(str) THEN Append(done, piece)
    ELSE IF str[i] = ":" THEN SplitFrom(str, i + 1, <<>>, Append(done, piece))
    ELSE SplitFrom(str, i + 1, Append(piece, str[i]), done)

Split(str) == SplitFrom(str, 1, <<>>, <<>>)

\* int(piece): decimal value; ValueError for an empty or non-digit piece
RECURSIVE IntFrom(_, _, _)
IntFrom(piece, i, acc) ==
    IF i > Len(piece) THEN acc
    ELSE IntFrom(piece, i + 1, acc * 10 + DigitVal(piece[i]))

ParseInt(piece) ==
    IF Len(piece) = 0 \/ \E i \in 1..Len(piece) : ~IsDigit(piece[i])
    THEN ValueError
    ELSE IntFrom(piece, 1, 0)

time_to_sec(time) ==
    LET parts == Split(time) IN
    IF Len(parts) # 3 THEN ValueError
    ELSE LET hours == ParseInt(parts[1])
             minutes == ParseInt(parts[2])
             seconds == ParseInt(parts[3])
         IN IF hours = ValueError \/ minutes = ValueError \/ seconds = ValueError
            THEN ValueError
            ELSE hours * 3600 + minutes * 60 + seconds

-----------------------------------------------------------------------------
(* Record store: table player_stats *)

\* a lookup that finds a nickname only in the first row of the table
GetOneByNicknameFirstRow(ps, name) ==
    IF Len(ps) >= 1 /\ ps[1].nickname = name THEN 1 ELSE 0

\* db.getOne("player_stats", ..., ("nickname=%s", [name])): index of the first
\* row with that nickname, 0 when there is none
GetOneByNickname(ps, name) ==
    IF \E i \in 1..Len(ps) : ps[i].nickname = name
    THEN CHOOSE i \in 1..Len(ps) :
            /\ ps[i].nickname = name
            /\ \A j \in 1..(i - 1) : ps[j].nickname # name
    ELSE 0

ZeroStats ==
    [score |-> 0, deaths |-> 0, us_games |-> 0, ch_games |-> 0, ac_games |-> 0,
     eu_games |-> 0, cq_games |-> 0, cf_games |-> 0, wins |-> 0, losses |-> 0,
     top_player |-> 0]

StatFields == DOMAIN ZeroStats

\* the stat columns of a stored row (_dbEntry.copy() without the id)
StatsOfRow(row) == [f \in StatFields |-> row[f]]

\* TopFrom with the last of several tied participants winning
RECURSIVE TopFromLastTied(_, _, _)
TopFromLastTied(players, i, top) ==
    IF i > Len(players) THEN top
    ELSE TopFromLastTied(players, i + 1,
            IF \/ top = 0
               \/ players[i].score > players[top].score
               \/ /\ players[i].score = players[top].score
                  /\ players[i].deaths <= players[top].deaths
            THEN i ELSE top)

\* the index of the top player in the participant list (0 for an empty list)
RECURSIVE TopFrom(_, _, _)
TopFrom(players, i, top) ==
    IF i > Len(players) THEN top
    ELSE TopFrom(players, i + 1,
            IF \/ top = 0
               \/ players[i].score > players[top].score
               \/ /\ players[i].score = players[top].score
                  /\ players[i].deaths < players[top].deaths
            THEN i ELSE top)

TopPlayerIndex(players) == TopFrom(players, 1, 0)

\* variants of SummedStats, each departing from it in one rule:
\*   "team1_view": wins and losses are decided as for team index 0
\*   "team1_country": the team counter follows team1_country
\*   "conquest_only": cq_games counts only the game type conquest
\*   "eu_also": eu_games counts every country but US
SummedStatsVariant(st, p, server_data, top_name, v) ==
    LET team == IF p.team = 0 \/ v = "team1_country" THEN server_data.team1_country
                ELSE server_data.team2_country
        t1 == server_data.team1_score
        t2 == server_data.team2_score
        won == IF p.team = 0 \/ v = "team1_view" THEN t1 > t2 ELSE t1 < t2
        lost == IF p.team = 0 \/ v = "team1_view" THEN t1 < t2 ELSE t1 > t2
        ctf == server_data.game_type = "capturetheflag"
        cq == IF v = "conquest_only" THEN server_data.game_type = "conquest" ELSE ~ctf
        eu == IF v = "eu_also" THEN team # "US" ELSE team \notin {"US", "CH", "AC"}
    IN [score |-> st.score + p.score,
        deaths |-> st.deaths + p.deaths,
        us_games |-> st.us_games + (IF team = "US" THEN 1 ELSE 0),
        ch_games |-> st.ch_games + (IF team = "CH" THEN 1 ELSE 0),
        ac_games |-> st.ac_games + (IF team = "AC" THEN 1 ELSE 0),
        eu_games |-> st.eu_games + (IF eu THEN 1 ELSE 0),
        cq_games |-> st.cq_games + (IF cq THEN 1 ELSE 0),
        cf_games |-> st.cf_games + (IF ctf THEN 1 ELSE 0),
        wins |-> st.wins + (IF won THEN 1 ELSE 0),
        losses |-> st.losses + (IF lost THEN 1 ELSE 0),
        top_player |-> st.top_player + (IF p.name = top_name THEN 1 ELSE 0)]

SummedStatsTeam1View(st, p, server_data, top_name) ==
    SummedStatsVariant(st, p, server_data, top_name, "team1_view")

SummedStatsTeam1Country(st, p, server_data, top_name) ==
    SummedStatsVariant(st, p, server_data, top_name, "team1_country")

SummedStatsConquestOnly(st, p, server_data, top_name) ==
    SummedStatsVariant(st, p, server_data, top_name, "conquest_only")

SummedStatsEuAlso(st, p, server_data, top_name) ==
    SummedStatsVariant(st, p, server_data, top_name, "eu_also")

\* the round's contribution of participant p added to the stats st
SummedStats(st, p, server_data, top_name) ==
    LET team == IF p.team = 0 THEN server_data.team1_country
                ELSE server_data.team2_country
        t1 == server_data.team1_score
        t2 == server_data.team2_score
        won == IF p.team = 0 THEN t1 > t2 ELSE t1 < t2
        lost == IF p.team = 0 THEN t1 < t2 ELSE t1 > t2
        ctf == server_data.game_type = "capturetheflag"
    IN [score |-> st.score + p.score,
        deaths |-> st.deaths + p.deaths,
        us_games |-> st.us_games + (IF team = "US" THEN 1 ELSE 0),
        ch_games |-> st.ch_games + (IF team = "CH" THEN 1 ELSE 0),
        ac_games |-> st.ac_games + (IF team = "AC" THEN 1 ELSE 0),
        eu_games |-> st.eu_games + (IF team \notin {"US", "CH", "AC"} THEN 1 ELSE 0),
        cq_games |-> st.cq_games + (IF ctf THEN 0 ELSE 1),
        cf_games |-> st.cf_games + (IF ctf THEN 1 ELSE 0),
        wins |-> st.wins + (IF won THEN 1 ELSE 0),
        losses |-> st.losses + (IF lost THEN 1 ELSE 0),
        top_player |-> st.top_player + (IF p.name = top_name THEN 1 ELSE 0)]

\* db.update("player_stats", _summed_stats, ["id=..."])
UpdateRow(ps, i, st) ==
    [ps EXCEPT ![i] = [f \in DOMAIN ps[i] |->
                          IF f \in StatFields THEN st[f] ELSE ps[i][f]]]

\* InsertRow stamping day 0 whatever the date
InsertRowEpoch(ps, name, st, day) ==
    Append(ps,
        [id |-> Len(ps) + 1, nickname |-> name, first_seen |-> 0,
         score |-> st.score, deaths |-> st.deaths,
         us_games |-> st.us_games, ch_games |-> st.ch_games,
         ac_games |-> st.ac_games, eu_games |-> st.eu_games,
         cq_games |-> st.cq_games, cf_games |-> st.cf_games,
         wins |-> st.wins, losses |-> st.losses, top_player |-> st.top_player,
         dis_uid |-> Null, color_r |-> Null, color_g |-> Null, color_b |-> Null])

\* db.insert("player_stats", _summed_stats) with nickname and first_seen
InsertRow(ps, name, st, day) ==
    Append(ps,
        [id |-> Len(ps) + 1, nickname |-> name, first_seen |-> day,
         score |-> st.score, deaths |-> st.deaths,
         us_games |-> st.us_games, ch_games |-> st.ch_games,
         ac_games |-> st.ac_games, eu_games |-> st.eu_games,
         cq_games |-> st.cq_games, cf_games |-> st.cf_games,
         wins |-> st.wins, losses |-> st.losses, top_player |-> st.top_player,
         dis_uid |-> Null, color_r |-> Null, color_g |-> Null, color_b |-> Null])

\* RecordOnePlayer writing the round's stats over the stored ones
RecordOnePlayerOverwrite(ps, p, server_data, top_name, day) ==
    LET i == GetOneByNickname(ps, p.name)
        st == SummedStats(ZeroStats, p, server_data, top_name)
    IN IF i # 0
       THEN [ps EXCEPT ![i] = [f \in DOMAIN ps[i] |->
                                  IF f \in StatFields THEN st[f] ELSE ps[i][f]]]
       ELSE Append(ps,
              [id |-> Len(ps) + 1, nickname |-> p.name, first_seen |-> day,
               score |-> st.score, deaths |-> st.deaths,
               us_games |-> st.us_games, ch_games |-> st.ch_games,
               ac_games |-> st.ac_games, eu_games |-> st.eu_games,
               cq_games |-> st.cq_games, cf_games |-> st.cf_games,
               wins |-> st.wins, losses |-> st.losses,
               top_player |-> st.top_player,
               dis_uid |-> Null, color_r |-> Null, color_g |-> Null,
               color_b |-> Null])

\* one iteration of the loop over server_data['players']
RecordOnePlayer(ps, p, server_data, top_name, day) ==
    LET i == GetOneByNickname(ps, p.name)
        st == SummedStats(IF i = 0 THEN ZeroStats ELSE StatsOfRow(ps[i]),
                          p, server_data, top_name)
    IN IF i # 0 THEN UpdateRow(ps, i, st) ELSE InsertRow(ps, p.name, st, day)

\* the loop over the participants; the store fails at the failk-th participant
\* (failk = 0: no failure), which raises out of record_player_stats
RECURSIVE RecordPlayersFrom(_, _, _, _, _, _)
RecordPlayersFrom(ps, server_data, i, top_name, day, failk) ==
    IF i > Len(server_data.players) THEN [ps |-> ps, ok |-> TRUE]
    ELSE IF i = failk THEN [ps |-> ps, ok |-> FALSE]
    ELSE RecordPlayersFrom(
            RecordOnePlayer(ps, server_data.players[i], server_data, top_name, day),
            server_data, i + 1, top_name, day, failk)

\* record_player_stats accepting a snapshot with a single participant
record_player_statsOneEnough(ps, server_data, day, failk) ==
    IF server_data = NoneData \/ Len(server_data.players) < 1
    THEN [ps |-> ps, top |-> None, ok |-> TRUE]
    ELSE LET top_name == server_data.players[TopFrom(server_data.players, 1, 0)].name
             r == RecordPlayersFrom(ps, server_data, 1, top_name, day, failk)
         IN [ps |-> r.ps, top |-> top_name, ok |-> r.ok]

\* record_player_stats(server_data): [ps: the table after the call, top: the
\* returned nickname or None, ok: FALSE when a store access raised]
record_player_stats(ps, server_data, day, failk) ==
    IF server_data = NoneData \/ Len(server_data.players) < 2
    THEN [ps |-> ps, top |-> None, ok |-> TRUE]
    ELSE LET top_name == server_data.players[TopPlayerIndex(server_data.players)].name
             r == RecordPlayersFrom(ps, server_data, 1, top_name, day, failk)
         IN [ps |-> r.ps, top |-> top_name, ok |-> r.ok]

-----------------------------------------------------------------------------
(* Record store: table map_stats *)

\* CS.MAP_DATA: map_name -> numeric map id
MAP_DATA == [backstab |-> 0, bridgetoofar |-> 1]

MapIds == {MAP_DATA[n] : n \in DOMAIN MAP_DATA}

NoRow == [map_name |-> None, conquest |-> 0, capturetheflag |-> 0]

\* record_map_stats replacing the whole row: the other mode falls back to 0
record_map_statsReplaceRow(ms, server_data) ==
    IF server_data = NoneData \/ Len(server_data.players) < 2 THEN ms
    ELSE LET map_id == MAP_DATA[server_data.map_name]
             old == ms[map_id]
         IN IF server_data.game_type = "capturetheflag"
            THEN [ms EXCEPT ![map_id] =
                    [map_name |-> server_data.map_name, conquest |-> 0,
                     capturetheflag |-> 1 + old.capturetheflag]]
            ELSE [ms EXCEPT ![map_id] =
                    [map_name |-> server_data.map_name,
                     conquest |-> 1 + old.conquest, capturetheflag |-> 0]]

\* record_map_stats(server_data): the table after the call; a row that was
\* missing is created with the column DEFAULT 0 in the other mode
record_map_stats(ms, server_data) ==
    IF server_data = NoneData \/ Len(server_data.players) < 2 THEN ms
    ELSE LET map_id == MAP_DATA[server_data.map_name]
             old == ms[map_id]
         IN IF server_data.game_type = "capturetheflag"
            THEN [ms EXCEPT ![map_id] =
                    [map_name |-> server_data.map_name,
                     conquest |-> old.conquest,
                     capturetheflag |-> 1 + old.capturetheflag]]
            ELSE [ms EXCEPT ![map_id] =
                    [map_name |-> server_data.map_name,
                     conquest |-> 1 + old.conquest,
                     capturetheflag |-> old.capturetheflag]]

-----------------------------------------------------------------------------
(* Server snapshots returned by the API *)

T5 == <<"0", "0", ":", "0", "0", ":", "0", "5">>
T30 == <<"0", "0", ":", "0", "0", ":", "3", "0">>
T70 == <<"0", "0", ":", "0", "1", ":", "1", "0">>
MalformedTime == <<"0", "0", ":", "3", "0">>

\* the timer values a poll can show, in increasing order
TimeStr == <<T5, T30, T70>>

TimeIdx == 1..Len(TimeStr)

Roster(s) ==
    IF s = 1
    THEN <<[name |-> "alice", score |-> 10, deaths |-> 2, team |-> 0],
           [name |-> "bob", score |-> 10, deaths |-> 1, team |-> 1]>>
    ELSE <<[name |-> "bob", score |-> 3, deaths |-> 0, team |-> 0],
           [name |-> "carol", score |-> 7, deaths |-> 4, team |-> 1]>>

\* the snapshot of server s in match m with timer index t and n participants;
\* match is history only: no code reads it
Snapshot(s, m, t, n, bad) ==
    [id |-> s,
     map_name |-> IF s = 1 THEN "backstab" ELSE "bridgetoofar",
     time_elapsed |-> IF bad THEN MalformedTime ELSE TimeStr[t],
     team1_country |-> IF s = 1 THEN "US" ELSE "AC",
     team2_country |-> IF s = 1 THEN "CH" ELSE "EU",
     team1_score |-> IF s = 1 THEN 3 ELSE 5,
     team2_score |-> IF s = 1 THEN 3 ELSE 2,
     game_type |-> IF s = 1 THEN "conquest" ELSE "capturetheflag",
     players |-> SubSeq(Roster(s), 1, n),
     match |-> m]

\* what one server can show at a poll, given what it showed last.  env bounds
\* the environment: the servers that come online, the timer values, the
\* participant counts, and whether the API returns malformed timer strings.
\* With env.matches = 0 the timer is any value and matches are not told apart;
\* otherwise a server shows the same match with a timer that did not go back,
\* or the next match (up to env.matches of them) with any timer
Sightings(s, w, env) ==
    {[present |-> FALSE, m |-> w.match, t |-> w.t, n |-> 0, bad |-> FALSE]}
    \cup {[present |-> TRUE, m |-> w.match, t |-> t, n |-> n, bad |-> FALSE] :
            t \in {x \in env.times : s \in env.servers
                                     /\ (env.matches = 0 \/ x >= w.t)},
            n \in env.sizes}
    \cup {[present |-> TRUE, m |-> w.match, t |-> w.t, n |-> n, bad |-> TRUE] :
            n \in {x \in env.sizes : s \in env.servers /\ env.malformed /\ x >= 2}}
    \cup {[present |-> TRUE, m |-> w.match + 1, t |-> t, n |-> n, bad |-> FALSE] :
            t \in {x \in env.times : s \in env.servers /\ w.match < env.matches},
            n \in env.sizes}

\* the results list built from one sighting per server, in id order
RECURSIVE ResultsFrom(_, _)
ResultsFrom(sight, s) ==
    IF s \notin ServerIds THEN <<>>
    ELSE (IF sight[s].present
          THEN <<Snapshot(s, sight[s].m, sight[s].t, sight[s].n, sight[s].bad)>>
          ELSE <<>>) \o ResultsFrom(sight, s + 1)

-----------------------------------------------------------------------------
(* StatsLoop *)

\* membership looking at the head of the list only
InListHeadOnly(list, x) == list # <<>> /\ list[1] = x

\* x in list
InList(list, x) == \E i \in 1..Len(list) : list[i] = x

\* list.remove(x): drops the first occurrence
RemoveFirst(list, x) ==
    LET i == CHOOSE k \in 1..Len(list) :
                 list[k] = x /\ \A j \in 1..(k - 1) : list[j] # x
    IN SubSeq(list, 1, i - 1) \o SubSeq(list, i + 1, Len(list))

\* index in results of the first server with this id, 0 when there is none
FindServer(results, id) ==
    IF \E j \in 1..Len(results) : results[j].id = id
    THEN CHOOSE j \in 1..Len(results) :
            results[j].id = id /\ \A k \in 1..(j - 1) : results[k].id # id
    ELSE 0

Ev(ev, s_o, via, ok) ==
    [ev |-> ev, id |-> s_o.id, match |-> s_o.match, via |-> via, ok |-> ok,
     valid |-> Len(s_o.players) >= 2]

Log(acc, e) == [acc EXCEPT !.calls = Append(@, e)]

\* an exception leaves the loop body: nothing after it runs
Raise(acc, e) == [Log(acc, e) EXCEPT !.failed = TRUE]

\* history: one more record_player_stats invocation on a valid snapshot of
\* this match (counted up to 2, and only where matches are told apart)
Count(acc, s_o) ==
    IF Len(s_o.players) >= 2 /\ acc.track
    THEN [acc EXCEPT !.cnt[<<s_o.id, s_o.match>>] = IF @ < 2 THEN @ + 1 ELSE @]
    ELSE acc

\* IsFinishedGame without the test of the tracker
IsFinishedGameNoTracker(ids, s_o, _old_time, _new_time) ==
    /\ _old_time = _new_time
    /\ Len(s_o.players) >= MatchMinPlayers
    /\ _old_time >= MatchMinTimeSec

\* IsFinishedGame with the minimum time excluded
IsFinishedGameStrictTime(ids, s_o, _old_time, _new_time) ==
    /\ _old_time = _new_time
    /\ ~InList(ids, s_o.id)
    /\ Len(s_o.players) >= MatchMinPlayers
    /\ _old_time > MatchMinTimeSec

\* lines 324-328: the condition of the finished-game branch
IsFinishedGame(ids, s_o, _old_time, _new_time) ==
    /\ _old_time = _new_time
    /\ ~InList(ids, s_o.id)
    /\ Len(s_o.players) >= MatchMinPlayers
    /\ _old_time >= MatchMinTimeSec

\* IsNewGame with the comparison of the timers turned around
IsNewGameTimerUp(ids, s_o, _old_time, _new_time) ==
    InList(ids, s_o.id) /\ _old_time < _new_time

\* line 355: the condition of the new-game branch
IsNewGame(ids, s_o, _old_time, _new_time) ==
    InList(ids, s_o.id) /\ _old_time > _new_time

\* FinishedGame with the server marked as post-game before its stats are recorded
FinishedGameMarkFirst(acc, s_o, day, fl) ==
    LET failk == IF fl = "player1" THEN 1 ELSE IF fl = "player2" THEN 2 ELSE 0
        a0 == Log([acc EXCEPT !.ids = Append(@, s_o.id)],
                  Ev("append", s_o, "finished", TRUE))
        rp == record_player_stats(a0.ps, s_o, day, failk)
        a1 == Count([a0 EXCEPT !.ps = rp.ps], s_o)
    IN IF ~rp.ok THEN Raise(a1, Ev("record_player_stats", s_o, "finished", FALSE))
       ELSE LET a2 == Log(a1, Ev("record_player_stats", s_o, "finished", TRUE)) IN
       IF fl = "map" /\ Len(s_o.players) >= 2
       THEN Raise(a2, Ev("record_map_stats", s_o, "finished", FALSE))
       ELSE LET a3 == Log([a2 EXCEPT !.ms = record_map_stats(a2.ms, s_o)],
                          Ev("record_map_stats", s_o, "finished", TRUE)) IN
       IF fl = "send"
       THEN Raise(a3, Ev("send", s_o, "finished", FALSE))
       ELSE Log(a3, Ev("send", s_o, "finished", TRUE))

\* FinishedGame with the server marked as post-game before the notification
FinishedGameMarkBeforeSend(acc, s_o, day, fl) ==
    LET failk == IF fl = "player1" THEN 1 ELSE IF fl = "player2" THEN 2 ELSE 0
        rp == record_player_stats(acc.ps, s_o, day, failk)
        a1 == Count([acc EXCEPT !.ps = rp.ps], s_o)
    IN IF ~rp.ok THEN Raise(a1, Ev("record_player_stats", s_o, "finished", FALSE))
       ELSE LET a2 == Log(a1, Ev("record_player_stats", s_o, "finished", TRUE)) IN
       IF fl = "map" /\ Len(s_o.players) >= 2
       THEN Raise(a2, Ev("record_map_stats", s_o, "finished", FALSE))
       ELSE LET a3 == Log([Log([a2 EXCEPT !.ms = record_map_stats(a2.ms, s_o)],
                               Ev("record_map_stats", s_o, "finished", TRUE))
                             EXCEPT !.ids = Append(@, s_o.id)],
                          Ev("append", s_o, "finished", TRUE)) IN
       IF fl = "send"
       THEN Raise(a3, Ev("send", s_o, "finished", FALSE))
       ELSE Log(a3, Ev("send", s_o, "finished", TRUE))

\* lines 329-353; fl names the step at which a collaborator raises, if any
FinishedGame(acc, s_o, day, fl) ==
    LET failk == IF fl = "player1" THEN 1 ELSE IF fl = "player2" THEN 2 ELSE 0
        rp == record_player_stats(acc.ps, s_o, day, failk)
        a1 == Count([acc EXCEPT !.ps = rp.ps], s_o)
    IN IF ~rp.ok THEN Raise(a1, Ev("record_player_stats", s_o, "finished", FALSE))
       ELSE LET a2 == Log(a1, Ev("record_player_stats", s_o, "finished", TRUE)) IN
       IF fl = "map" /\ Len(s_o.players) >= 2
       THEN Raise(a2, Ev("record_map_stats", s_o, "finished", FALSE))
       ELSE LET a3 == Log([a2 EXCEPT !.ms = record_map_stats(a2.ms, s_o)],
                          Ev("record_map_stats", s_o, "finished", TRUE)) IN
       IF fl = "send"
       THEN Raise(a3, Ev("send", s_o, "finished", FALSE))
       ELSE Log([Log(a3, Ev("send", s_o, "finished", TRUE))
                    EXCEPT !.ids = Append(@, s_o.id)],
                Ev("append", s_o, "finished", TRUE))

\* GoneOffline without the removal from the tracker
GoneOfflineKeepsId(acc, s_o, day, fl) ==
    LET failk == IF fl = "player1" THEN 1 ELSE IF fl = "player2" THEN 2 ELSE 0
        rp == record_player_stats(acc.ps, s_o, day, failk)
        a1 == Count([acc EXCEPT !.ps = rp.ps], s_o)
    IN IF ~rp.ok THEN Raise(a1, Ev("record_player_stats", s_o, "offline", FALSE))
       ELSE Log(a1, Ev("record_player_stats", s_o, "offline", TRUE))

\* lines 360-365
GoneOffline(acc, s_o, day, fl) ==
    LET failk == IF fl = "player1" THEN 1 ELSE IF fl = "player2" THEN 2 ELSE 0
        rp == record_player_stats(acc.ps, s_o, day, failk)
        a1 == Count([acc EXCEPT !.ps = rp.ps], s_o)
    IN IF ~rp.ok THEN Raise(a1, Ev("record_player_stats", s_o, "offline", FALSE))
       ELSE LET a2 == Log(a1, Ev("record_player_stats", s_o, "offline", TRUE)) IN
       IF InList(a2.ids, s_o.id)
       THEN Log([a2 EXCEPT !.ids = RemoveFirst(@, s_o.id)],
                Ev("remove", s_o, "offline", TRUE))
       ELSE a2

\* lines 314-365: one iteration of the loop over the previous results
OneServer(acc, s_o, cur_results, day, fl) ==
    LET j == FindServer(cur_results, s_o.id) IN
    IF j = 0 THEN GoneOffline(acc, s_o, day, fl)
    ELSE LET _old_time == time_to_sec(s_o.time_elapsed)
             _new_time == time_to_sec(cur_results[j].time_elapsed)
         IN IF _old_time = ValueError \/ _new_time = ValueError
            THEN Raise(acc, Ev("time_to_sec", s_o, "raise", FALSE))
            ELSE IF IsFinishedGame(acc.ids, s_o, _old_time, _new_time)
            THEN FinishedGame(acc, s_o, day, fl)
            ELSE IF IsNewGame(acc.ids, s_o, _old_time, _new_time)
            THEN Log([acc EXCEPT !.ids = RemoveFirst(@, s_o.id)],
                     Ev("remove", s_o, "newgame", TRUE))
            ELSE Log(acc, Ev("unchanged", s_o, "unchanged", TRUE))

NoFail == [at |-> 0, stage |-> "none"]

\* where a collaborator (the record store, the text channel) can raise: at the
\* i-th server of the previous results, at one step of its processing
FailPoints ==
    {[at |-> i, stage |-> st] :
        i \in 1..Cardinality(ServerIds),
        st \in {"player1", "player2", "map", "send"}}

\* line 313: the loop over old_query_data['results']
RECURSIVE DifferFrom(_, _, _, _, _, _)
DifferFrom(acc, old_results, cur_results, i, day, fail) ==
    IF i > Len(old_results) \/ acc.failed THEN acc
    ELSE DifferFrom(
            OneServer(acc, old_results[i], cur_results, day,
                      IF fail.at = i THEN fail.stage ELSE "none"),
            old_results, cur_results, i + 1, day, fail)

\* Differ without the test that current results exist
DifferNoCurTest(acc, old, cur, day, fail) ==
    IF old.present
    THEN DifferFrom(acc, old.results, cur.results, 1, day, fail)
    ELSE acc

\* lines 311-365: the body of StatsLoop after query_api has returned
Differ(acc, old, cur, day, fail) ==
    IF old.present /\ cur.present
    THEN DifferFrom(acc, old.results, cur.results, 1, day, fail)
    ELSE acc

\* the servers of the previous results that this poll shows again in the same
\* match with the same timer, at or above both thresholds
SeenFinished(old, cur) ==
    {<<old.results[i].id, old.results[i].match>> : i \in
        {i \in 1..Len(old.results) :
            LET s_o == old.results[i]
                j == FindServer(cur.results, s_o.id)
            IN /\ j # 0
               /\ cur.results[j].match = s_o.match
               /\ time_to_sec(s_o.time_elapsed) # ValueError
               /\ time_to_sec(s_o.time_elapsed) = time_to_sec(cur.results[j].time_elapsed)
               /\ Len(s_o.players) >= MatchMinPlayers
               /\ time_to_sec(s_o.time_elapsed) >= MatchMinTimeSec}}

\* the call log c holds an event ev of server id
HasEvent(c, id, ev) == \E i \in 1..Len(c) : c[i].id = id /\ c[i].ev = ev

\* server id is in both results, with timer strings that parse to the same value
StaysEqual(old, cur, id) ==
    LET i == FindServer(old.results, id)
        j == FindServer(cur.results, id)
    IN /\ i # 0
       /\ j # 0
       /\ time_to_sec(old.results[i].time_elapsed) # ValueError
       /\ time_to_sec(old.results[i].time_elapsed)
            = time_to_sec(cur.results[j].time_elapsed)

-----------------------------------------------------------------------------
(* The state machine *)

Members == {101, 102}

\* line 299: tasks.loop(seconds=10)
LoopSeconds == 10

\* the configured poll interval when the bot starts
QueryIntervalSeconds == 30

\* the values the configured poll interval can be given at runtime
ConfigIntervals == {30, 60}

\* no leaderboard built, no view on display, no cooldown running, no command run
InitCmd ==
    /\ board = [called |-> FALSE]
    /\ views = {}
    /\ now = 0
    /\ cooldowns = [b \in {"claim", "color"} \X Members |-> 0]
    /\ last_cmd = [cmd |-> "none"]
    /\ StatsLoop_seconds = LoopSeconds
    /\ config_interval = QueryIntervalSeconds

Init ==
    /\ old_query_data = NoneData
    /\ cur_query_data = NoneData
    /\ game_over_ids = <<>>
    /\ player_stats = <<>>
    /\ map_stats = [m \in MapIds |-> NoRow]
    /\ pc = "stopped"
    /\ today = 0
    /\ world = [s \in ServerIds |-> [match |-> 1, t |-> 1]]
    /\ calls = <<>>
    /\ ticks = 0
    /\ detected = [s \in ServerIds |-> FALSE]
    /\ recorded = [k \in ServerIds \X (1..MaxMatchCalm) |-> 0]
    /\ pending = {}
    /\ arg_server_data = NoneData
    /\ ret_top_player = None
    /\ ncalls = 0
    /\ InitCmd

\* lines 292-296: on_ready sets the configured interval and starts the loop
\* when it is not running
on_ready ==
    /\ pc = "stopped"
    /\ pc' = "idle"
    /\ StatsLoop_seconds' = config_interval
    /\ UNCHANGED config_interval
    /\ UNCHANGED <<old_query_data, cur_query_data, game_over_ids, player_stats,
                   map_stats, today, world, calls, ticks, detected, recorded,
                   pending, arg_server_data, ret_top_player, ncalls>>
    /\ UNCHANGED cmdvars

\* the results a poll can return: None when the fetch fails
Fetches(env) ==
    {[present |-> FALSE, sight |-> [s \in ServerIds |-> Sightings(s, world[s], env)]] :
        x \in {y \in {1} : env.fetch_fails}}
    \cup {[present |-> TRUE, sight |-> sight] :
            sight \in {f \in [ServerIds ->
                               UNION {Sightings(s, world[s], env) : s \in ServerIds}] :
                          \A s \in ServerIds : f[s] \in Sightings(s, world[s], env)}}

\* line 307: bot.query_api(): the last result becomes the previous one; a failed
\* fetch leaves no current result and keeps the previous one
query_api(env) ==
    /\ pc = "idle"
    /\ ticks < env.max_ticks
    /\ ticks' = ticks + 1
    /\ pc' = "fetched"
    /\ calls' = <<>>
    /\ old_query_data' = IF cur_query_data.present THEN cur_query_data
                         ELSE old_query_data
    /\ \E f \in Fetches(env) :
        IF f.present
        THEN /\ cur_query_data' = [present |-> TRUE,
                                   results |-> ResultsFrom(f.sight, 1)]
             /\ world' = [s \in ServerIds |->
                            IF f.sight[s].present /\ env.matches > 0
                            THEN [match |-> f.sight[s].m, t |-> f.sight[s].t]
                            ELSE world[s]]
        ELSE /\ cur_query_data' = NoneData
             /\ UNCHANGED world
    /\ UNCHANGED <<game_over_ids, player_stats, map_stats, today, detected,
                   recorded, pending, arg_server_data, ret_top_player, ncalls>>
    /\ UNCHANGED cmdvars
    /\ UNCHANGED loopvars

\* what a StatsLoop body starts from
StartOfBody(track) ==
    [ids |-> game_over_ids, ps |-> player_stats, ms |-> map_stats,
     calls |-> <<>>, failed |-> FALSE, cnt |-> recorded, track |-> track,
     seconds |-> StatsLoop_seconds]

\* the interval change starting the loop's state afresh
UpdateIntervalRestart(acc, _config_interval) ==
    IF acc.failed \/ acc.seconds = _config_interval THEN acc
    ELSE [acc EXCEPT !.seconds = _config_interval, !.ids = <<>>,
                     !.calls = Append(@, [ev |-> "change_interval", id |-> 0,
                                          match |-> 0, via |-> "interval",
                                          ok |-> TRUE, valid |-> FALSE])]

\* lines 367-371: the interval follows the configured value; not reached when
\* an exception left the body
UpdateInterval(acc, _config_interval) ==
    IF acc.failed \/ acc.seconds = _config_interval THEN acc
    ELSE [acc EXCEPT !.seconds = _config_interval,
                     !.calls = Append(@, [ev |-> "change_interval", id |-> 0,
                                          match |-> 0, via |-> "interval",
                                          ok |-> TRUE, valid |-> FALSE])]

\* lines 309-371: the rest of one StatsLoop iteration; an exception ends the loop
StatsLoop(env) ==
    /\ pc = "fetched"
    /\ \E fail \in {NoFail} \cup env.faults :
       \E acc \in {UpdateInterval(
                      Differ(StartOfBody(env.matches > 0),
                             old_query_data, cur_query_data, today, fail),
                      config_interval)} :
           /\ StatsLoop_seconds' = acc.seconds
           /\ UNCHANGED config_interval
           /\ game_over_ids' = acc.ids
           /\ player_stats' = acc.ps
           /\ map_stats' = acc.ms
           /\ calls' = acc.calls
           /\ recorded' = acc.cnt
           /\ pc' = IF acc.failed THEN "stopped" ELSE "idle"
           /\ detected' =
                IF ~(old_query_data.present /\ cur_query_data.present)
                THEN detected
                ELSE [s \in ServerIds |->
                        \/ HasEvent(acc.calls, s, "append")
                        \/ detected[s] /\ StaysEqual(old_query_data, cur_query_data, s)]
           /\ pending' =
                IF acc.failed \/ env.matches = 0 THEN {}
                ELSE IF ~(old_query_data.present /\ cur_query_data.present)
                THEN pending
                ELSE {k \in pending \cup SeenFinished(old_query_data, cur_query_data) :
                        /\ acc.cnt[k] = 0
                        /\ FindServer(cur_query_data.results, k[1]) # 0}
    /\ UNCHANGED <<old_query_data, cur_query_data, today, world, ticks,
                   arg_server_data, ret_top_player, ncalls>>
    /\ UNCHANGED cmdvars

\* every server, participant count, failure and malformed string
FullEnv ==
    [servers |-> ServerIds, times |-> {1, 2}, sizes |-> 1..2, malformed |-> TRUE,
     fetch_fails |-> TRUE, faults |-> FailPoints, max_ticks |-> MaxTicks,
     matches |-> 0]

Next == on_ready \/ query_api(FullEnv) \/ StatsLoop(FullEnv)

Spec == Init /\ [][Next]_vars

\* one server playing a sequence of full matches, no collaborator failing
CalmEnv ==
    [servers |-> {1}, times |-> TimeIdx, sizes |-> {2}, malformed |-> FALSE,
     fetch_fails |-> TRUE, faults |-> {}, max_ticks |-> MaxTicksCalm,
     matches |-> MaxMatchCalm]

NextCalm == on_ready \/ query_api(CalmEnv) \/ StatsLoop(CalmEnv)

SpecCalm == Init /\ [][NextCalm]_vars

-----------------------------------------------------------------------------
(* record_player_stats called directly on one snapshot *)

TopScores == 0..2
TopDeaths == 0..1

Participants ==
    [name : {"alice", "bob"}, score : TopScores, deaths : TopDeaths, team : {0}]

ParticipantLists == UNION {[1..k -> Participants] : k \in 0..MaxPlayers}

InitTop ==
    /\ old_query_data = NoneData
    /\ cur_query_data = NoneData
    /\ game_over_ids = <<>>
    /\ player_stats = <<>>
    /\ map_stats = [m \in MapIds |-> NoRow]
    /\ pc = "stopped"
    /\ today = 0
    /\ world = [s \in ServerIds |-> [match |-> 1, t |-> 1]]
    /\ calls = <<>>
    /\ ticks = 0
    /\ detected = [s \in ServerIds |-> FALSE]
    /\ recorded = [k \in ServerIds \X (1..MaxMatchCalm) |-> 0]
    /\ pending = {}
    /\ arg_server_data \in
          {[Snapshot(1, 1, 1, 0, FALSE) EXCEPT !.players = pl] : pl \in ParticipantLists}
    /\ ret_top_player = None
    /\ ncalls = 0
    /\ InitCmd

\* lines 89-194: one call record_player_stats(arg_server_data), the store working
call_record_player_stats ==
    /\ ncalls < MaxCalls
    /\ ncalls' = ncalls + 1
    /\ \E r \in {record_player_stats(player_stats, arg_server_data, today, 0)} :
          /\ player_stats' = r.ps
          /\ ret_top_player' = r.top
    /\ UNCHANGED <<old_query_data, cur_query_data, game_over_ids, map_stats, pc,
                   today, world, calls, ticks, detected, recorded, pending,
                   arg_server_data>>
    /\ UNCHANGED cmdvars
    /\ UNCHANGED loopvars

NextTop == call_record_player_stats

SpecTop == InitTop /\ [][NextTop]_vars

\* participant i comes first in the order: higher score, then fewer deaths,
\* then earlier in the list
IsBest(pl, i) ==
    \A j \in (1..Len(pl)) \ {i} :
        \/ pl[j].score < pl[i].score
        \/ pl[j].score = pl[i].score /\ pl[j].deaths > pl[i].deaths
        \/ pl[j].score = pl[i].score /\ pl[j].deaths = pl[i].deaths /\ j > i

\* C10: with at least 2 participants the top player is the one with the highest
\* score, among those the one with the fewest deaths, among those the first listed
C10_TopPlayer ==
    ncalls >= 1 /\ Len(arg_server_data.players) >= 2 =>
        \E i \in 1..Len(arg_server_data.players) :
            /\ IsBest(arg_server_data.players, i)
            /\ ret_top_player = arg_server_data.players[i].name

C10_Witness ==
    /\ ncalls = 1
    /\ Len(arg_server_data.players) = 3
    /\ arg_server_data.players[1] = [name |-> "alice", score |-> 1, deaths |-> 0, team |-> 0]
    /\ arg_server_data.players[2] = [name |-> "bob", score |-> 2, deaths |-> 1, team |-> 0]
    /\ arg_server_data.players[3] = [name |-> "alice", score |-> 2, deaths |-> 1, team |-> 0]
    /\ ret_top_player = "bob"

-----------------------------------------------------------------------------
(* Properties of the poll loop *)

\* one iteration body has just run with both results present
Ran == old_query_data.present /\ cur_query_data.present

OldIds == {old_query_data.results[i].id : i \in 1..Len(old_query_data.results)}

OldSnap(id) == old_query_data.results[FindServer(old_query_data.results, id)]

CurSnap(id) == cur_query_data.results[FindServer(cur_query_data.results, id)]

InCur(id) == FindServer(cur_query_data.results, id) # 0

\* in the call log c, the loop reached server id and no call for it raised
Processed(c, id) ==
    /\ \A i \in 1..Len(c) :
          ~c[i].ok => FindServer(old_query_data.results, c[i].id)
                        > FindServer(old_query_data.results, id)
    /\ FindServer(old_query_data.results, id) # 0

\* the call log c records stats for server id
RecordsFor(c, id) ==
    HasEvent(c, id, "record_player_stats") \/ HasEvent(c, id, "record_map_stats")

C2_AtMostOncePerMatch ==
    \A k \in DOMAIN recorded : recorded[k] <= 1

\* C3: no finished match is lost while its server stays online: a match that was
\* seen with an equal timer in two consecutive polls, at or above both
\* thresholds, has been recorded by the time the server shows a later match
C3_NoMatchLost ==
    pc # "fetched" /\ cur_query_data.present =>
        \A k \in pending : InCur(k[1]) => CurSnap(k[1]).match <= k[2]

\* the finished-game treatment of server id in the call log c and tracker ids
TreatedFinished(c, ids, id) ==
    /\ HasEvent(c, id, "record_player_stats")
    /\ HasEvent(c, id, "record_map_stats")
    /\ HasEvent(c, id, "append")
    /\ InList(ids, id)

C7_NoDifferWithoutBothResults ==
    [][pc = "fetched" /\ ~Ran =>
        /\ player_stats' = player_stats
        /\ map_stats' = map_stats
        /\ game_over_ids' = game_over_ids
        /\ calls' = <<>>]_vars

C7_Witness ==
    /\ pc = "idle"
    /\ ~cur_query_data.present
    /\ old_query_data.present
    /\ \E i \in 1..Len(old_query_data.results) :
          Len(old_query_data.results[i].players) >= 2
    /\ calls = <<>>
    /\ ticks >= 2

\* C8: a malformed timer string on one server skips only that server: every
\* other server of the previous results is still processed in the same iteration
C8_OtherServersStillProcessed ==
    pc # "fetched" =>
        \A s \in ServerIds :
            HasEvent(calls, s, "time_to_sec") =>
                \A o \in OldIds \ {s} : \E i \in 1..Len(calls) : calls[i].id = o

\* C9: when the record store raises while a finished-game server is being
\* aggregated, that server's id is not added to the tracker in that iteration
C9_StoreFailureNotMarked ==
    [][pc = "fetched" =>
        \A s \in ServerIds :
            (\E i \in 1..Len(calls') :
                /\ calls'[i].id = s
                /\ calls'[i].via = "finished"
                /\ calls'[i].ev \in {"record_player_stats", "record_map_stats"}
                /\ ~calls'[i].ok)
            => ~InList(game_over_ids', s)]_vars

C9_Witness ==
    /\ pc = "stopped"
    /\ \E i \in 1..Len(calls) :
          /\ calls[i].id = 1
          /\ calls[i].ev = "record_player_stats"
          /\ calls[i].via = "finished"
          /\ ~calls[i].ok
    /\ Len(player_stats) = 1
    /\ ~InList(game_over_ids, 1)

-----------------------------------------------------------------------------
(* The aggregation called directly: record_player_stats and record_map_stats *)
(* on one snapshot, any number of times, over one or more days               *)

AggParticipants ==
    {[name |-> "alice", score |-> 2, deaths |-> 1, team |-> t] : t \in {0, 1}}
    \cup {[name |-> "bob", score |-> 1, deaths |-> 0, team |-> t] : t \in {0, 1}}

AggLists == UNION {[1..k -> AggParticipants] : k \in 0..2}

\* <<team1_country, team2_country>>
AggCountries ==
    {<<"US", "CH">>, <<"CH", "AC">>, <<"AC", "EU">>, <<"EU", "RU">>, <<"RU", "US">>}

\* <<team1_score, team2_score>>
AggScores == {<<0, 1>>, <<1, 0>>, <<1, 1>>}

AggGameTypes == {"conquest", "capturetheflag", "teamdeathmatch"}

AggSnapshots ==
    {[Snapshot(1, 1, 1, 0, FALSE) EXCEPT
        !.players = pl, !.team1_country = c[1], !.team2_country = c[2],
        !.team1_score = sc[1], !.team2_score = sc[2], !.game_type = g,
        !.map_name = mp] :
     pl \in AggLists, c \in AggCountries, sc \in AggScores, g \in AggGameTypes,
     mp \in DOMAIN MAP_DATA}

InitAgg ==
    /\ old_query_data = NoneData
    /\ cur_query_data = NoneData
    /\ game_over_ids = <<>>
    /\ player_stats = <<>>
    /\ map_stats = [m \in MapIds |-> NoRow]
    /\ pc = "stopped"
    /\ today = 0
    /\ world = [s \in ServerIds |-> [match |-> 1, t |-> 1]]
    /\ calls = <<>>
    /\ ticks = 0
    /\ detected = [s \in ServerIds |-> FALSE]
    /\ recorded = [k \in ServerIds \X (1..MaxMatchCalm) |-> 0]
    /\ pending = {}
    /\ arg_server_data \in AggSnapshots \cup {NoneData}
    /\ ret_top_player = "unset"
    /\ ncalls = 0
    /\ InitCmd

\* how many times event e is in the log
Times(log, e) == Cardinality({i \in 1..Len(log) : log[i] = e})

\* lines 196-234: one call record_map_stats(arg_server_data)
call_record_map_stats ==
    /\ Times(calls, "record_map_stats") < MaxCalls
    /\ calls' = Append(calls, "record_map_stats")
    /\ map_stats' = record_map_stats(map_stats, arg_server_data)
    /\ UNCHANGED <<old_query_data, cur_query_data, game_over_ids, player_stats,
                   pc, today, world, ticks, detected, recorded, pending,
                   arg_server_data, ret_top_player, ncalls>>
    /\ UNCHANGED cmdvars
    /\ UNCHANGED loopvars

\* the date read at line 190 moves on
next_day ==
    /\ today < MaxDays
    /\ today' = today + 1
    /\ UNCHANGED <<old_query_data, cur_query_data, game_over_ids, player_stats,
                   map_stats, pc, world, calls, ticks, detected, recorded,
                   pending, arg_server_data, ret_top_player, ncalls>>
    /\ UNCHANGED cmdvars
    /\ UNCHANGED loopvars

NextAgg == call_record_player_stats \/ call_record_map_stats \/ next_day

SpecAgg == InitAgg /\ [][NextAgg]_vars

-----------------------------------------------------------------------------
(* record_map_stats called for the successive rounds of one server *)

\* the rounds a server can play: each with or without enough participants
MapSnapshots ==
    {[Snapshot(1, 1, 1, n, FALSE) EXCEPT !.game_type = g, !.map_name = mp] :
     n \in 0..2, g \in AggGameTypes, mp \in DOMAIN MAP_DATA}

InitMap ==
    /\ old_query_data = NoneData
    /\ cur_query_data = NoneData
    /\ game_over_ids = <<>>
    /\ player_stats = <<>>
    /\ map_stats = [m \in MapIds |-> NoRow]
    /\ pc = "stopped"
    /\ today = 0
    /\ world = [s \in ServerIds |-> [match |-> 1, t |-> 1]]
    /\ calls = <<>>
    /\ ticks = 0
    /\ detected = [s \in ServerIds |-> FALSE]
    /\ recorded = [k \in ServerIds \X (1..MaxMatchCalm) |-> 0]
    /\ pending = {}
    /\ arg_server_data \in MapSnapshots \cup {NoneData}
    /\ ret_top_player = "unset"
    /\ ncalls = 0
    /\ InitCmd

\* the server goes on to its next round, on any map with any game type
next_match ==
    /\ Times(calls, "next_match") + 1 < MaxRounds
    /\ calls' = Append(calls, "next_match")
    /\ arg_server_data' \in MapSnapshots \ {arg_server_data}
    /\ UNCHANGED <<old_query_data, cur_query_data, game_over_ids, player_stats,
                   map_stats, pc, today, world, ticks, detected, recorded,
                   pending, ret_top_player, ncalls>>
    /\ UNCHANGED cmdvars
    /\ UNCHANGED loopvars

NextMap == call_record_map_stats \/ next_match

SpecMap == InitMap /\ [][NextMap]_vars

\* the snapshot is one the aggregation accepts
ValidArg == arg_server_data # NoneData /\ Len(arg_server_data.players) >= 2

\* the participants of the snapshot that carry nickname n
Named(n) ==
    IF arg_server_data = NoneData THEN {}
    ELSE {i \in 1..Len(arg_server_data.players) : arg_server_data.players[i].name = n}

Nicknames == {"alice", "bob"}

\* the value of counter f for nickname n in table ps (0 without a record)
Stat(ps, n, f) ==
    IF GetOneByNickname(ps, n) = 0 THEN 0 ELSE ps[GetOneByNickname(ps, n)][f]

HasRecord(ps, n) == GetOneByNickname(ps, n) # 0

\* a call of record_player_stats is being made
CallingPlayers == ncalls' = ncalls + 1

\* a call of record_map_stats is being made
CallingMap == calls' = Append(calls, "record_map_stats")

\* what participant i of the snapshot adds to counter f of its nickname's record
Part(i, f) ==
    LET sd == arg_server_data
        p == sd.players[i]
        country == IF p.team = 0 THEN sd.team1_country ELSE sd.team2_country
        bucket == IF country = "US" THEN "us_games"
                  ELSE IF country = "CH" THEN "ch_games"
                  ELSE IF country = "AC" THEN "ac_games"
                  ELSE "eu_games"
        mode == IF sd.game_type = "capturetheflag" THEN "cf_games" ELSE "cq_games"
        own == IF p.team = 0 THEN sd.team1_score ELSE sd.team2_score
        other == IF p.team = 0 THEN sd.team2_score ELSE sd.team1_score
        best == CHOOSE j \in 1..Len(sd.players) : IsBest(sd.players, j)
    IN CASE f = "score" -> p.score
         [] f = "deaths" -> p.deaths
         [] f \in {"us_games", "ch_games", "ac_games", "eu_games"} ->
                IF f = bucket THEN 1 ELSE 0
         [] f \in {"cq_games", "cf_games"} -> IF f = mode THEN 1 ELSE 0
         [] f = "wins" -> IF own > other THEN 1 ELSE 0
         [] f = "losses" -> IF own < other THEN 1 ELSE 0
         [] f = "top_player" -> IF p.name = sd.players[best].name THEN 1 ELSE 0

\* what the whole round adds to counter f of nickname n
RECURSIVE ShareFrom(_, _, _)
ShareFrom(n, f, i) ==
    IF i > Len(arg_server_data.players) THEN 0
    ELSE (IF arg_server_data.players[i].name = n THEN Part(i, f) ELSE 0)
         + ShareFrom(n, f, i + 1)

RoundShare(n, f) == ShareFrom(n, f, 1)

\* C11: a call of record_player_stats or record_map_stats on a missing snapshot
\* or one with fewer than 2 participants changes neither table, and
\* record_player_stats returns None
C11_InvalidSnapshotWritesNothing ==
    [][(CallingPlayers \/ CallingMap) /\ ~ValidArg =>
          /\ player_stats' = player_stats
          /\ map_stats' = map_stats
          /\ (CallingPlayers => ret_top_player' = None)]_vars

C11_Witness ==
    /\ ncalls = 1
    /\ Len(calls) = 1
    /\ arg_server_data # NoneData
    /\ Len(arg_server_data.players) = 1
    /\ ret_top_player = None
    /\ player_stats = <<>>
    /\ map_stats = [m \in MapIds |-> NoRow]

TeamCounters == {"us_games", "ch_games", "ac_games", "eu_games"}

ModeCounters == {"cq_games", "cf_games"}

\* counter f of nickname n grows in this step by the round's share
GrowsByShare(n, f) ==
    Stat(player_stats', n, f) = Stat(player_stats, n, f) + RoundShare(n, f)

\* the sum of the counters fs of a row
RowSum(row, fs) ==
    LET RECURSIVE SumOver(_)
        SumOver(rest) ==
            IF rest = {} THEN 0
            ELSE LET f == CHOOSE x \in rest : TRUE
                 IN row[f] + SumOver(rest \ {f})
    IN SumOver(fs)

\* C12: in every record the four team-game counters add up to the two gamemode
\* counters, and wins + losses do not exceed that number of games
C12_GamesBalance ==
    \A i \in 1..Len(player_stats) :
        /\ RowSum(player_stats[i], TeamCounters) = RowSum(player_stats[i], ModeCounters)
        /\ player_stats[i].wins + player_stats[i].losses
              <= RowSum(player_stats[i], ModeCounters)

C12_Witness ==
    /\ ncalls = 2
    /\ \E i \in 1..Len(player_stats) :
          /\ player_stats[i].cf_games = 4
          /\ player_stats[i].ch_games = 2
          /\ player_stats[i].ac_games = 2
          /\ player_stats[i].wins = 2
          /\ player_stats[i].losses = 2

\* C13: a recorded round gives a participant a win when their own team's score
\* is the higher one, a loss when it is the lower one (team index 0 owns
\* team1_score, index 1 team2_score), and neither on equal scores
C13_WinsAndLosses ==
    [][CallingPlayers /\ ValidArg =>
          \A n \in Nicknames :
              GrowsByShare(n, "wins") /\ GrowsByShare(n, "losses")]_vars

C13_Witness ==
    /\ ncalls = 1
    /\ ValidArg
    /\ arg_server_data.team1_score > arg_server_data.team2_score
    /\ arg_server_data.players[1] = [name |-> "alice", score |-> 2, deaths |-> 1, team |-> 1]
    /\ arg_server_data.players[2].name = "bob"
    /\ Stat(player_stats, "alice", "losses") = 1
    /\ Stat(player_stats, "alice", "wins") = 0

\* C14: a recorded round adds 1 to exactly one team counter per participant:
\* the one of the country of their team (team1_country for index 0,
\* team2_country otherwise), eu_games for every code but US, CH, AC
C14_OneTeamCounter ==
    [][CallingPlayers /\ ValidArg =>
          \A n \in Nicknames :
              /\ \A f \in TeamCounters : GrowsByShare(n, f)
              /\ RowSum([f \in TeamCounters |-> RoundShare(n, f)], TeamCounters)
                    = Cardinality(Named(n))]_vars

C14_Witness ==
    /\ ncalls = 1
    /\ ValidArg
    /\ arg_server_data.team1_country = "EU"
    /\ arg_server_data.team2_country = "RU"
    /\ arg_server_data.players[1].name = "alice"
    /\ arg_server_data.players[1].team = 1
    /\ arg_server_data.players[2].name = "bob"
    /\ Stat(player_stats, "alice", "eu_games") = 1

\* C15: a recorded round adds 1 to exactly one gamemode counter per participant:
\* cf_games for a capture-the-flag match, cq_games for any other game type
C15_OneModeCounter ==
    [][CallingPlayers /\ ValidArg =>
          \A n \in Nicknames :
              /\ \A f \in ModeCounters : GrowsByShare(n, f)
              /\ RowSum([f \in ModeCounters |-> RoundShare(n, f)], ModeCounters)
                    = Cardinality(Named(n))]_vars

C15_Witness ==
    /\ ncalls = 1
    /\ ValidArg
    /\ arg_server_data.game_type = "teamdeathmatch"
    /\ arg_server_data.players[1].name = "alice"
    /\ arg_server_data.players[2].name = "bob"
    /\ Stat(player_stats, "alice", "cq_games") = 1
    /\ Stat(player_stats, "alice", "cf_games") = 0

\* the record of nickname n in table ps
RowOf(ps, n) == ps[GetOneByNickname(ps, n)]

\* C16: from an empty store, one call on a valid snapshot leaves every counter
\* of every participant at the round's share and a second call on the same
\* snapshot leaves it at exactly twice that
C16_TwiceDoubles ==
    ValidArg =>
        \A n \in Nicknames : \A f \in StatFields :
            /\ ncalls = 1 => Stat(player_stats, n, f) = RoundShare(n, f)
            /\ ncalls = 2 => Stat(player_stats, n, f) = 2 * RoundShare(n, f)

C16_Witness ==
    /\ ncalls = 2
    /\ ValidArg
    /\ arg_server_data.players[1].name = "alice"
    /\ arg_server_data.players[2].name = "bob"
    /\ Stat(player_stats, "alice", "score") = 4
    /\ Stat(player_stats, "alice", "top_player") = 2
    /\ Stat(player_stats, "bob", "score") = 2
    /\ Stat(player_stats, "bob", "wins") = 2

\* C17: a call that meets a nickname without a record inserts one record for
\* it, stamped with the date of the call and holding the round's share; a call
\* that meets a nickname with a record adds the round's share and keeps the
\* first-seen date
C17_InsertThenUpdate ==
    [][CallingPlayers /\ ValidArg =>
          \A n \in {x \in Nicknames : Named(x) # {}} :
              IF ~HasRecord(player_stats, n)
              THEN /\ Cardinality({i \in 1..Len(player_stats') :
                                      player_stats'[i].nickname = n}) = 1
                   /\ RowOf(player_stats', n).first_seen = today
                   /\ \A f \in StatFields :
                         Stat(player_stats', n, f) = RoundShare(n, f)
              ELSE /\ Cardinality({i \in 1..Len(player_stats') :
                                      player_stats'[i].nickname = n}) = 1
                   /\ RowOf(player_stats', n).first_seen
                         = RowOf(player_stats, n).first_seen
                   /\ \A f \in StatFields : GrowsByShare(n, f)]_vars

C17_Witness ==
    /\ ncalls = 2
    /\ today = 1
    /\ ValidArg
    /\ HasRecord(player_stats, "bob")
    /\ RowOf(player_stats, "bob").first_seen = 0
    /\ RowOf(player_stats, "bob").score = 2

\* C18: a call of record_map_stats on a valid snapshot adds 1 to one counter of
\* the played map's record (capturetheflag for a capture-the-flag match,
\* conquest otherwise), creating the record if absent, and leaves the other
\* counter and every other record as they were
C18_OneMapCounter ==
    [][CallingMap /\ ValidArg =>
          LET map_id == MAP_DATA[arg_server_data.map_name]
              ctf == arg_server_data.game_type = "capturetheflag"
          IN /\ \A m \in MapIds \ {map_id} : map_stats'[m] = map_stats[m]
             /\ map_stats'[map_id].map_name = arg_server_data.map_name
             /\ map_stats'[map_id].capturetheflag
                   = map_stats[map_id].capturetheflag + (IF ctf THEN 1 ELSE 0)
             /\ map_stats'[map_id].conquest
                   = map_stats[map_id].conquest + (IF ctf THEN 0 ELSE 1)]_vars

C18_Witness ==
    /\ calls = <<"record_map_stats", "next_match", "record_map_stats">>
    /\ ValidArg
    /\ arg_server_data.game_type = "capturetheflag"
    /\ map_stats[MAP_DATA["bridgetoofar"]] =
          [map_name |-> "bridgetoofar", conquest |-> 1, capturetheflag |-> 1]
    /\ map_stats[MAP_DATA["backstab"]] = NoRow

-----------------------------------------------------------------------------
(* The leaderboard: get_paginator_for_stat and split_list *)

\* line 240: the store returns at most this many rows
LeaderboardLimit == 50

\* line 242: entries per page
PageSize == 10

\* split_list keeping the first elements, instead of the last, as the remainder
split_listHeadRemainder(lst, chunk_size) ==
    IF chunk_size <= 0 THEN <<lst>>
    ELSE LET num_chunks == Len(lst) \div chunk_size
             remainder == Len(lst) % chunk_size
             result == [i \in 1..num_chunks |->
                          SubSeq(lst, (i - 1) * chunk_size + 1, i * chunk_size)]
         IN IF remainder # 0
            THEN Append(result, SubSeq(lst, 1, remainder))
            ELSE result

\* lines 72-82: split_list(lst, chunk_size)
split_list(lst, chunk_size) ==
    IF chunk_size <= 0 THEN <<lst>>
    ELSE LET num_chunks == Len(lst) \div chunk_size
             remainder == Len(lst) % chunk_size
             result == [i \in 1..num_chunks |->
                          SubSeq(lst, (i - 1) * chunk_size + 1, i * chunk_size)]
         IN IF remainder # 0
            THEN Append(result, SubSeq(lst, Len(lst) - remainder + 1, Len(lst)))
            ELSE result

\* row a comes before row b in ORDER BY stat DESC; the store is free in the
\* order of rows with equal values: tie tells whether it lists them by rising
\* or by falling id
Before(a, b, stat, tie) ==
    \/ a[stat] > b[stat]
    \/ a[stat] = b[stat] /\ (IF tie = "rising" THEN a.id < b.id ELSE a.id > b.id)

\* the rows sorted by insertion, one by one
RECURSIVE InsertSorted(_, _, _, _)
InsertSorted(sorted, row, stat, tie) ==
    IF sorted = <<>> THEN <<row>>
    ELSE IF Before(row, Head(sorted), stat, tie) THEN <<row>> \o sorted
    ELSE <<Head(sorted)>> \o InsertSorted(Tail(sorted), row, stat, tie)

RECURSIVE SortFrom(_, _, _, _, _)
SortFrom(ps, i, sorted, stat, tie) ==
    IF i > Len(ps) THEN sorted
    ELSE SortFrom(ps, i + 1, InsertSorted(sorted, ps[i], stat, tie), stat, tie)

\* db.getAll("player_stats", ["nickname", stat], None, [stat, "DESC"], [0, 50])
GetAllTop(ps, stat, tie) ==
    LET sorted == SortFrom(ps, 1, <<>>, stat, tie)
        top == SubSeq(sorted, 1, IF Len(sorted) < LeaderboardLimit
                                 THEN Len(sorted) ELSE LeaderboardLimit)
    IN [i \in 1..Len(top) |-> [nickname |-> top[i].nickname, value |-> top[i][stat]]]

\* the lines of one page: rank and nickname, the rank running on from _rank
PageLines(page, _rank) ==
    [k \in 1..Len(page) |->
        [rank |-> _rank + k - 1, nickname |-> page[k].nickname,
         value |-> page[k].value]]

\* lines 243-266: the loop over the pages
RECURSIVE PagesFrom(_, _, _)
PagesFrom(chunks, i, _rank) ==
    IF i > Len(chunks) THEN <<>>
    ELSE <<PageLines(chunks[i], _rank)>>
         \o PagesFrom(chunks, i + 1, _rank + Len(chunks[i]))

\* lines 236-274: get_paginator_for_stat(stat): the pages of the Paginator; a
\* single page without lines ("No stats yet.") for an empty table
get_paginator_for_stat(ps, stat, tie) ==
    LET _dbEntries == GetAllTop(ps, stat, tie)
    IN IF _dbEntries # <<>>
       THEN PagesFrom(split_list(_dbEntries, PageSize), 1, 1)
       ELSE <<<<>>>>

\* the tables the leaderboard is built from: n players, the stats spread by k
BoardSeeds == {1, 3, 7}

BoardTable(n, k) ==
    [i \in 1..n |->
        [id |-> i, nickname |-> ToString(i), first_seen |-> 0,
         score |-> (i * k) % 11, deaths |-> 0,
         us_games |-> 0, ch_games |-> 0, ac_games |-> 0, eu_games |-> 0,
         cq_games |-> 0, cf_games |-> 0, wins |-> (i + k) % 3, losses |-> 0,
         top_player |-> 0,
         dis_uid |-> Null, color_r |-> Null, color_g |-> Null, color_b |-> Null]]

InitBoard ==
    /\ old_query_data = NoneData
    /\ cur_query_data = NoneData
    /\ game_over_ids = <<>>
    /\ player_stats \in {BoardTable(n, k) : n \in 0..MaxRows, k \in BoardSeeds}
    /\ map_stats = [m \in MapIds |-> NoRow]
    /\ pc = "stopped"
    /\ today = 0
    /\ world = [s \in ServerIds |-> [match |-> 1, t |-> 1]]
    /\ calls = <<>>
    /\ ticks = 0
    /\ detected = [s \in ServerIds |-> FALSE]
    /\ recorded = [k \in ServerIds \X (1..MaxMatchCalm) |-> 0]
    /\ pending = {}
    /\ arg_server_data = NoneData
    /\ ret_top_player = None
    /\ ncalls = 0
    /\ InitCmd

\* one leaderboard is built for a stat
call_get_paginator_for_stat ==
    /\ \E stat \in {"score", "wins"} : \E tie \in {"rising", "falling"} :
          board' = [called |-> TRUE, stat |-> stat,
                    pages |-> get_paginator_for_stat(player_stats, stat, tie)]
    /\ UNCHANGED <<player_stats, pollvars, views, now, cooldowns, last_cmd>>

NextBoard == call_get_paginator_for_stat

SpecBoard == InitBoard /\ [][NextBoard]_vars

\* the lines of all pages, in page order
RECURSIVE Flatten(_)
Flatten(pages) == IF pages = <<>> THEN <<>> ELSE Head(pages) \o Flatten(Tail(pages))

BoardLines == Flatten(board.pages)

\* the smaller of two numbers
Min(a, b) == IF a < b THEN a ELSE b

\* C19: the leaderboard lists the first 50 players (all of them if fewer) of the
\* table in descending order of the stat, each player once; every page but the
\* last has 10 lines, the last has at most 10; the k-th line overall has rank k
C19_Leaderboard ==
    board.called =>
        /\ Len(BoardLines) = Min(Len(player_stats), LeaderboardLimit)
        /\ \A k \in 1..Len(BoardLines) : BoardLines[k].rank = k
        /\ \A k \in 1..(Len(BoardLines) - 1) :
              BoardLines[k].value >= BoardLines[k + 1].value
        /\ \A k \in 1..Len(BoardLines) :
              \E i \in 1..Len(player_stats) :
                  /\ player_stats[i].nickname = BoardLines[k].nickname
                  /\ player_stats[i][board.stat] = BoardLines[k].value
        /\ \A k, l \in 1..Len(BoardLines) :
              k # l => BoardLines[k].nickname # BoardLines[l].nickname
        /\ \A i \in 1..Len(player_stats) :
              (\A k \in 1..Len(BoardLines) :
                  BoardLines[k].nickname # player_stats[i].nickname)
              => player_stats[i][board.stat] <= BoardLines[Len(BoardLines)].value
        /\ \A j \in 1..(Len(board.pages) - 1) : Len(board.pages[j]) = PageSize
        /\ Len(board.pages[Len(board.pages)]) <= PageSize
        /\ Len(BoardLines) > 0 => Len(board.pages[Len(board.pages)]) >= 1

C19_Witness ==
    /\ board.called
    /\ Len(player_stats) > LeaderboardLimit
    /\ Len(board.pages) = 5
    /\ board.pages[2][1].rank = PageSize + 1
    /\ board.pages[5][PageSize].rank = LeaderboardLimit

-----------------------------------------------------------------------------
(* /stats nickname claim and the ClaimNickname confirmation view *)

\* line 597: commands.cooldown(1, 60, BucketType.member)
ClaimCooldown == 60

\* lines 672-673: the view is built with the default timeout of discord.ui.View
ViewTimeout == 180

\* db.getOne("player_stats", ["id"], ("dis_uid=%s", [uid])): index of the first
\* row owned by uid, 0 when there is none
GetOneByUid(ps, uid) ==
    IF \E i \in 1..Len(ps) : ps[i].dis_uid = uid
    THEN CHOOSE i \in 1..Len(ps) :
            /\ ps[i].dis_uid = uid
            /\ \A j \in 1..(i - 1) : ps[j].dis_uid # uid
    ELSE 0

\* the nicknames a caller can type: those of the table and one never seen
ClaimNicknames(ps) == {ps[i].nickname : i \in 1..Len(ps)} \cup {"dave"}

\* the table when the commands are used: three players seen, none claimed
ClaimTable ==
    record_player_stats(
        record_player_stats(<<>>, Snapshot(1, 1, 1, 2, FALSE), 0, 0).ps,
        Snapshot(2, 1, 1, 2, FALSE), 0, 0).ps

InitClaim ==
    /\ old_query_data = NoneData
    /\ cur_query_data = NoneData
    /\ game_over_ids = <<>>
    /\ player_stats = ClaimTable
    /\ map_stats = [m \in MapIds |-> NoRow]
    /\ pc = "stopped"
    /\ today = 0
    /\ world = [s \in ServerIds |-> [match |-> 1, t |-> 1]]
    /\ calls = <<>>
    /\ ticks = 0
    /\ detected = [s \in ServerIds |-> FALSE]
    /\ recorded = [k \in ServerIds \X (1..MaxMatchCalm) |-> 0]
    /\ pending = {}
    /\ arg_server_data = NoneData
    /\ ret_top_player = None
    /\ ncalls = 0
    /\ InitCmd

\* the view shown by claim when every test passes, none otherwise
ClaimViews(ps, author, nickname, t) ==
    IF GetOneByUid(ps, author) # 0 THEN {}
    ELSE IF GetOneByNickname(ps, nickname) = 0 THEN {}
    ELSE IF ps[GetOneByNickname(ps, nickname)].dis_uid # Null THEN {}
    ELSE {[id |-> ps[GetOneByNickname(ps, nickname)].id, nickname |-> nickname,
           author |-> author, expires |-> t + ViewTimeout]}

\* what claim answers the caller
ClaimAnswer(ps, author, nickname) ==
    IF GetOneByUid(ps, author) # 0 THEN "already claimed your one nickname"
    ELSE IF GetOneByNickname(ps, nickname) = 0 THEN "nickname not seen"
    ELSE IF ps[GetOneByNickname(ps, nickname)].dis_uid # Null
    THEN "claimed by another"
    ELSE "are you sure"

\* lines 596-664: /stats nickname claim, once the member's cooldown is over
claim ==
    /\ \E author \in Members : \E nickname \in ClaimNicknames(player_stats) :
          /\ now >= cooldowns[<<"claim", author>>]
          /\ cooldowns' = [cooldowns EXCEPT ![<<"claim", author>>] = now + ClaimCooldown]
          /\ views' = views \cup ClaimViews(player_stats, author, nickname, now)
          /\ last_cmd' = [cmd |-> "claim",
                          text |-> ClaimAnswer(player_stats, author, nickname)]
    /\ UNCHANGED <<player_stats, pollvars, board, now>>

\* lines 678-693: "Yes, I'm sure!" pressed on a view that has not timed out
yes_button_callback ==
    /\ \E v \in views :
          /\ now < v.expires
          /\ player_stats' = [i \in 1..Len(player_stats) |->
                                 IF player_stats[i].id = v.id
                                 THEN [player_stats[i] EXCEPT !.dis_uid = v.author]
                                 ELSE player_stats[i]]
          /\ views' = views \ {v}
    /\ last_cmd' = [cmd |-> "yes", text |-> "claimed"]
    /\ UNCHANGED <<pollvars, board, now, cooldowns>>

\* lines 695-700: "No, cancel." pressed
no_button_callback ==
    /\ \E v \in views :
          /\ now < v.expires
          /\ views' = views \ {v}
    /\ last_cmd' = [cmd |-> "no", text |-> "canceled"]
    /\ UNCHANGED <<player_stats, pollvars, board, now, cooldowns>>

\* time passes; the views that timed out are taken down and the cooldowns that
\* ran out are forgotten
tick ==
    /\ now < MaxClock
    /\ now' = now + ClaimCooldown
    /\ views' = {v \in views : now + ClaimCooldown < v.expires}
    /\ cooldowns' = [b \in DOMAIN cooldowns |->
                        IF cooldowns[b] <= now + ClaimCooldown THEN 0
                        ELSE cooldowns[b]]
    /\ UNCHANGED <<player_stats, pollvars, board, last_cmd>>

NextClaim == claim \/ yes_button_callback \/ no_button_callback \/ tick

SpecClaim == InitClaim /\ [][NextClaim]_vars

\* the records owned by member u
OwnedBy(u) == {i \in 1..Len(player_stats) : player_stats[i].dis_uid = u}

\* C20: through the claim flow no member comes to own more than one nickname
C20_OneNicknamePerMember ==
    \A u \in Members : Cardinality(OwnedBy(u)) <= 1

\* C21: a record that has an owner keeps that owner through every step of the
\* claim flow
C21_OwnerNeverReplaced ==
    [][\A i \in 1..Len(player_stats) :
          player_stats[i].dis_uid # Null
          => player_stats'[i].dis_uid = player_stats[i].dis_uid]_vars

-----------------------------------------------------------------------------
(* /stats nickname color and /stats nickname assign *)

\* line 703: commands.cooldown(1, 5, BucketType.member)
ColorCooldown == 5

\* self.bot.user: assigning a nickname to the bot removes its owner
BotUser == 100

\* <<red, green, blue>>
Colors == {<<255, 128, 0>>, <<0, 0, 0>>}

\* db.update("player_stats", {...}, ["id=..."]) of the three color columns
UpdateColor(ps, id, rgb) ==
    [i \in 1..Len(ps) |->
        IF ps[i].id = id
        THEN [ps[i] EXCEPT !.color_r = rgb[1], !.color_g = rgb[2], !.color_b = rgb[3]]
        ELSE ps[i]]

\* color changing the record of any claimed nickname, whoever calls
ColorRecordAnyOwner(ps, author, nickname, rgb) ==
    LET i == GetOneByNickname(ps, nickname)
    IN IF i # 0 /\ ps[i].dis_uid # Null
       THEN UpdateColor(ps, ps[i].id, rgb)
       ELSE ps

\* lines 739-759: the table after color(nickname, red, green, blue) by author
ColorRecord(ps, author, nickname, rgb) ==
    LET i == GetOneByNickname(ps, nickname)
    IN IF i # 0 /\ ps[i].dis_uid = author
       THEN UpdateColor(ps, ps[i].id, rgb)
       ELSE ps

\* lines 702-759: /stats nickname color, once the member's cooldown is over
color ==
    /\ \E author \in Members : \E nickname \in ClaimNicknames(player_stats) : \E rgb \in Colors :
          /\ now >= cooldowns[<<"color", author>>]
          /\ cooldowns' = [cooldowns EXCEPT ![<<"color", author>>] = now + ColorCooldown]
          /\ player_stats' = ColorRecord(player_stats, author, nickname, rgb)
          /\ last_cmd' = [cmd |-> "color", author |-> author, nickname |-> nickname]
    /\ UNCHANGED <<pollvars, board, views, now>>

\* an update of the owner that writes the record anew, its counters at zero
UpdateOwnerFreshRow(ps, id, _uid) ==
    [i \in 1..Len(ps) |->
        IF ps[i].id = id
        THEN [f \in DOMAIN ps[i] |->
                IF f = "dis_uid" THEN _uid
                ELSE IF f \in StatFields THEN 0 ELSE ps[i][f]]
        ELSE ps[i]]

\* db.update("player_stats", {"dis_uid": _uid}, ["id=..."])
UpdateOwner(ps, id, _uid) ==
    [i \in 1..Len(ps) |->
        IF ps[i].id = id THEN [ps[i] EXCEPT !.dis_uid = _uid] ELSE ps[i]]

\* lines 781-803: the table after assign(member, nickname)
AssignRecord(ps, member, nickname) ==
    LET i == GetOneByNickname(ps, nickname)
    IN IF i # 0
       THEN UpdateOwner(ps, ps[i].id, IF member # BotUser THEN member ELSE Null)
       ELSE ps

\* lines 763-803: /stats nickname assign, run by an admin
assign ==
    /\ \E member \in Members \cup {BotUser} : \E nickname \in ClaimNicknames(player_stats) :
          /\ player_stats' = AssignRecord(player_stats, member, nickname)
          /\ last_cmd' = [cmd |-> "assign",
                          text |-> IF GetOneByNickname(player_stats, nickname) # 0
                                   THEN "assigned" ELSE "nickname not seen"]
    /\ UNCHANGED <<pollvars, board, views, now, cooldowns>>

-----------------------------------------------------------------------------
(* The poll loop and the commands together *)

\* one server that shows full matches at one timer value or is away; no
\* collaborator failing
QuietEnv ==
    [servers |-> {1}, times |-> {2}, sizes |-> {2}, malformed |-> FALSE,
     fetch_fails |-> FALSE, faults |-> {}, max_ticks |-> MaxTicks, matches |-> 0]

NextAll ==
    \/ on_ready
    \/ query_api(QuietEnv)
    \/ StatsLoop(QuietEnv)
    \/ claim
    \/ yes_button_callback
    \/ no_button_callback
    \/ color
    \/ assign

SpecAll == Init /\ [][NextAll]_vars

\* member a runs /stats nickname color in this step
ColorStep(a) ==
    /\ now' = now
    /\ cooldowns[<<"color", a>>] <= now
    /\ cooldowns'[<<"color", a>>] = now + ColorCooldown
    /\ last_cmd'.cmd = "color"
    /\ last_cmd'.author = a

\* the three color columns of a record
ColorOf(row) == <<row.color_r, row.color_g, row.color_b>>

\* C22: a color command changes a record only when the named record exists and
\* its owner is the caller, and then only that record; no other step changes a
\* color
C22_ColorOnlyByOwner ==
    [][/\ \A a \in Members :
            ColorStep(a) =>
                LET i == GetOneByNickname(player_stats, last_cmd'.nickname)
                IN IF i # 0 /\ player_stats[i].dis_uid = a
                   THEN \A j \in 1..Len(player_stats) :
                           j # i => player_stats'[j] = player_stats[j]
                   ELSE player_stats' = player_stats
       /\ \A i \in 1..Len(player_stats) :
            ColorOf(player_stats'[i]) # ColorOf(player_stats[i])
            => /\ player_stats[i].dis_uid \in Members
               /\ ColorStep(player_stats[i].dis_uid)
               /\ last_cmd'.nickname = player_stats[i].nickname]_vars

C22_Witness ==
    /\ last_cmd.cmd = "color"
    /\ last_cmd.author = 102
    /\ last_cmd.nickname = "alice"
    /\ Len(player_stats) = 2
    /\ player_stats[1].nickname = "alice"
    /\ player_stats[1].dis_uid = 101
    /\ ColorOf(player_stats[1]) = <<255, 128, 0>>
    /\ player_stats[2].dis_uid = 102
    /\ ColorOf(player_stats[2]) = <<Null, Null, Null>>

\* C23: no two records share a nickname, and once a valid snapshot has been
\* recorded there is a record for each nickname it lists and for no other
C23_OneRecordPerNickname ==
    /\ \A i, j \in 1..Len(player_stats) :
          i # j => player_stats[i].nickname # player_stats[j].nickname
    /\ ncalls >= 1 /\ ValidArg =>
          \A n \in Nicknames : (\E i \in 1..Len(player_stats) : player_stats[i].nickname = n) <=> Named(n) # {}

C23_Witness ==
    /\ ncalls = 2
    /\ ValidArg
    /\ arg_server_data.players[1].name = "bob"
    /\ arg_server_data.players[2].name = "bob"
    /\ Len(player_stats) = 1
    /\ player_stats[1].nickname = "bob"
    /\ player_stats[1].score = 4

\* the counters of games played and won
GameCounters ==
    {"us_games", "ch_games", "ac_games", "eu_games", "cq_games", "cf_games",
     "wins", "losses", "top_player"}

\* a command or a button is handled in this step: the poll loop stays where it is
CommandStep == pc' = pc

\* C24: no step deletes a record, renames it, changes its first-seen date or
\* lowers one of its game counters; the steps of the claim, color and assign
\* commands leave every stat counter as it was
C24_RecordsKeptAndCountersGrow ==
    [][/\ Len(player_stats') >= Len(player_stats)
       /\ \A i \in 1..Len(player_stats) :
            /\ player_stats'[i].id = player_stats[i].id
            /\ player_stats'[i].nickname = player_stats[i].nickname
            /\ player_stats'[i].first_seen = player_stats[i].first_seen
            /\ \A f \in GameCounters : player_stats'[i][f] >= player_stats[i][f]
            /\ CommandStep =>
                  \A f \in StatFields : player_stats'[i][f] = player_stats[i][f]
       /\ CommandStep => Len(player_stats') = Len(player_stats)]_vars

C24_Witness ==
    /\ Len(player_stats) = 2
    /\ player_stats[1].nickname = "alice"
    /\ player_stats[1].cq_games = 2
    /\ player_stats[1].dis_uid = 101
    /\ ColorOf(player_stats[1]) = <<0, 0, 0>>
    /\ player_stats[2].dis_uid = 101
    /\ last_cmd.cmd = "assign"

(***************************************************************************)
(* The poll loop while the configured interval is changed at runtime       *)
(***************************************************************************)

\* one server whose clock may stand still or run, every failure possible
IntervalEnv ==
    [servers |-> {1}, times |-> {1, 2}, sizes |-> {2}, malformed |-> FALSE,
     fetch_fails |-> FALSE, faults |-> FailPoints, max_ticks |-> MaxTicks,
     matches |-> 0]

\* the configuration is given another QueryIntervalSeconds
set_config ==
    /\ \E c \in ConfigIntervals \ {config_interval} : config_interval' = c
    /\ UNCHANGED StatsLoop_seconds
    /\ UNCHANGED <<old_query_data, cur_query_data, game_over_ids, player_stats,
                   map_stats, pc, today, world, calls, ticks, detected,
                   recorded, pending, arg_server_data, ret_top_player, ncalls>>
    /\ UNCHANGED cmdvars

NextInterval ==
    \/ on_ready
    \/ query_api(IntervalEnv)
    \/ StatsLoop(IntervalEnv)
    \/ set_config

SpecInterval == Init /\ [][NextInterval]_vars

\* a StatsLoop body runs to its end in this step
EndOfTick == pc = "fetched" /\ pc' = "idle"

\* C25: a tick that ends with the loop's interval differing from the
\* configured one sets the interval to the configured value, and the tracker
\* and both tables are what the differ alone left
C25_IntervalFollowsConfig ==
    [][EndOfTick /\ StatsLoop_seconds # config_interval =>
         /\ StatsLoop_seconds' = config_interval
         /\ LET acc == Differ(StartOfBody(FALSE), old_query_data,
                              cur_query_data, today, NoFail)
            IN /\ game_over_ids' = acc.ids
               /\ player_stats' = acc.ps
               /\ map_stats' = acc.ms]_vars

C25_Witness ==
    /\ pc = "idle"
    /\ calls # <<>>
    /\ calls[Len(calls)].ev = "change_interval"
    /\ \A i \in 1..Len(calls) : calls[i].ev # "append"
    /\ StatsLoop_seconds = 60
    /\ game_over_ids = <<1>>
    /\ Len(player_stats) = 2

\* the entry of the log at position k is the step ev of the finished-game
\* branch for server id, and it went through
StepDone(log, k, ev, id) ==
    /\ k >= 1
    /\ log[k].ev = ev
    /\ log[k].via = "finished"
    /\ log[k].id = id
    /\ log[k].ok

\* C26: in the finished-game branch the map stats are recorded right after the
\* player stats, the notification is sent after both, and the id is added to
\* the tracker right after the notification; a step that raises is the last one
\* of the tick and leaves the id out of the tracker
C26_FinishedGameOrder ==
    [][pc = "fetched" /\ pc' # "fetched" =>
         \A k \in 1..Len(calls') :
            LET e == calls'[k] IN
            e.via = "finished" =>
               /\ e.ev \in {"record_player_stats", "record_map_stats", "send",
                            "append"}
               /\ e.ev = "record_map_stats" =>
                     StepDone(calls', k - 1, "record_player_stats", e.id)
               /\ e.ev = "send" =>
                     StepDone(calls', k - 1, "record_map_stats", e.id)
               /\ e.ev = "append" =>
                     /\ StepDone(calls', k - 1, "send", e.id)
                     /\ InList(game_over_ids', e.id)
               /\ ~e.ok =>
                     /\ k = Len(calls')
                     /\ pc' = "stopped"
                     /\ ~InList(game_over_ids', e.id)
               /\ e.ok /\ e.ev # "append" =>
                     /\ k < Len(calls')
                     /\ calls'[k + 1].id = e.id
                     /\ calls'[k + 1].via = "finished"]_vars

C26_Witness ==
    /\ pc = "stopped"
    /\ Len(calls) = 7
    /\ StepDone(calls, 4, "append", 1)
    /\ calls[7].ev = "send"
    /\ ~calls[7].ok
    /\ calls[7].id = 2
    /\ game_over_ids = <<1>>
    /\ map_stats # <<>>

\* no value occurs twice in the list
NoDuplicates(list) ==
    \A i, j \in 1..Len(list) : i # j => list[i] # list[j]

\* C27: the tracker never holds a server id twice, and an id removed from it
\* in a tick is not in it when the tick ends
C27_TrackerIsASet ==
    [][/\ NoDuplicates(game_over_ids')
       /\ pc = "fetched" =>
            \A s \in ServerIds :
               HasEvent(calls', s, "remove") => ~InList(game_over_ids', s)]_vars

C27_Witness ==
    /\ pc = "idle"
    /\ ticks = 3
    /\ game_over_ids = <<2>>
    /\ \E i \in 1..Len(calls) :
          calls[i].id = 1 /\ calls[i].ev = "remove" /\ calls[i].via = "offline"
    /\ HasEvent(calls, 2, "unchanged")

\* the sum of the counter f over the rows of a table
RECURSIVE ColumnSum(_, _)
ColumnSum(rows, f) ==
    IF rows = <<>> THEN 0 ELSE Head(rows)[f] + ColumnSum(Tail(rows), f)

\* C28: every call of record_player_stats on a valid snapshot raises the sum
\* of top_player over all records by exactly 1, also when several participants
\* carry the same nickname
C28_OneTopPlayerCredit ==
    [][ncalls' = ncalls + 1 /\ ValidArg =>
         ColumnSum(player_stats', "top_player")
            = ColumnSum(player_stats, "top_player") + 1]_vars

(***************************************************************************)
(* The poll loop restarted by on_ready after an exception has stopped it   *)
(***************************************************************************)

MaxTicksRestart == 4

\* one server, every fetch answered, every collaborator failure possible
RestartEnv ==
    [servers |-> {1}, times |-> {1, 2}, sizes |-> {2}, malformed |-> FALSE,
     fetch_fails |-> FALSE, faults |-> FailPoints,
     max_ticks |-> MaxTicksRestart, matches |-> 0]

NextRestart == on_ready \/ query_api(RestartEnv) \/ StatsLoop(RestartEnv)

SpecRestart == Init /\ [][NextRestart]_vars

\* C29: when a tick in which the differ ran ends, every id in the tracker is
\* the id of a server of that tick's current results (no fetch fails here, so
\* the previous results are always those of the preceding tick)
C29_TrackerWithinCurrentResults ==
    [][EndOfTick /\ Ran =>
         \A i \in 1..Len(game_over_ids') :
            FindServer(cur_query_data.results, game_over_ids'[i]) # 0]_vars

====
